---- MODULE Spec2Model ----
(***************************************************************************)
(* QueuedStateRegenerator (packages/lodestar/src/chain/regen/queued.ts):   *)
(* the regen job queue, the facade's cache fast paths, the head tracker    *)
(* and the dependant-root resolver.                                        *)
(***************************************************************************)
EXTENDS Integers, Sequences, FiniteSets, TLC

(***************************************************************************)
(* Bounds of the model                                                     *)
(***************************************************************************)
\* facade calls that reach jobQueue.push in one behaviour of Spec
MaxJobs == 2
\* calls that reach jobQueue.push in one behaviour of SpecQueue
MaxQueueJobs == 4
\* calls of getPreState that reach jobQueue.push in one behaviour of SpecPreState
MaxPreStateJobs == 2
\* calls of setHead that reach jobQueue.push in one behaviour of SpecShuffling
MaxShufflingJobs == 1
\* the epochs asked of getHeadStateAtEpoch: 0..MaxHeadReadEpoch
MaxHeadReadEpoch == 2
\* calls that reach jobQueue.push in one behaviour of SpecBackpressure:
\* enough to fill the queue and be refused
BackpressureJobs == 258
\* setHead calls that enqueue, in SpecHead
MaxHeadJobs == 2
\* the epochs asked of getDependantRootAtEpoch on its own: 0..MaxEpoch
MaxEpoch == 3
\* the finalized epochs of the fork choices drawn for it: 0..MaxFinalizedEpoch
MaxFinalizedEpoch == 2

(***************************************************************************)
(* Program constants                                                       *)
(***************************************************************************)
REGEN_QUEUE_MAX_LEN == 256
SLOTS_PER_EPOCH == 32

(***************************************************************************)
(* Values: blocks (IProtoBlock), states (CachedBeaconState), null          *)
(***************************************************************************)
NullRoot == "null"
\* the value of a field that is declared and never assigned: no object to
\* call a method on
Undefined == [defined |-> FALSE, refs |-> {}]
\* null of type IProtoBlock | null
NoBlock == [blockRoot |-> NullRoot, parentRoot |-> NullRoot, stateRoot |-> NullRoot,
            slot |-> 0 - 1, targetRoot |-> NullRoot]
\* null of type CachedBeaconState | null
NoState == [slot |-> 0 - 1, root |-> NullRoot]

Block(root, parent, stateRoot, slot, target) ==
    [blockRoot |-> root, parentRoot |-> parent, stateRoot |-> stateRoot,
     slot |-> slot, targetRoot |-> target]

State(slot, root) == [slot |-> slot, root |-> root]

computeEpochAtSlot(slot) == slot \div SLOTS_PER_EPOCH
computeStartSlotAtEpoch(epoch) == epoch * SLOTS_PER_EPOCH
\* toHexString(state.hashTreeRoot())
hashTreeRoot(state) == state.root

(***************************************************************************)
(* The fork choice the regenerator reads: genesis G @0, A @5, B @40        *)
(* (target A), C @45 (target B) on one chain, and D @70 whose parent has   *)
(* been pruned.                                                            *)
(***************************************************************************)
BlockG == Block("G", "none", "sG", 0, "G")
BlockA == Block("A", "G", "sA", 5, "G")
BlockB == Block("B", "A", "sB", 40, "A")
BlockC == Block("C", "B", "sC", 45, "B")
BlockD == Block("D", "pruned", "sD", 70, "D")
\* the first block of epoch 2 on the chain
BlockE == Block("E", "C", "sE", 70, "E")
\* a block at the first slot of epoch 2 whose parent was pruned, and its child
\* at the first slot of epoch 3
BlockF == Block("F", "pruned", "sF", 64, "F")
BlockH == Block("H", "F", "sH", 96, "F")
\* the parent of D and F, which fork choice has pruned
BlockPruned == Block("pruned", "none", "sP", 50, "pruned")

ForkChoice == [blocks |-> {BlockG, BlockA, BlockB, BlockC, BlockD, BlockE,
                          BlockF, BlockH},
               finalized |-> [epoch |-> 0, rootHex |-> "G"]]

getBlockHex(forkChoice, root) ==
    IF \E b \in forkChoice.blocks : b.blockRoot = root
    THEN CHOOSE b \in forkChoice.blocks : b.blockRoot = root
    ELSE NoBlock

getFinalizedCheckpoint(forkChoice) == forkChoice.finalized

(***************************************************************************)
(* getDependantRootAtEpoch: a root, or the Error it throws                 *)
(***************************************************************************)
RootOk(root) == [ok |-> TRUE, root |-> root, error |-> "", epoch |-> 0,
                 block |-> NullRoot, slot |-> 0]
\* Error(`Can not get dependant root from epoch before finalized epoch ${finalizedEpoch}`)
BeforeFinalized(finalizedEpoch) ==
    [ok |-> FALSE, root |-> NullRoot, error |-> "BeforeFinalized",
     epoch |-> finalizedEpoch, block |-> NullRoot, slot |-> 0]
\* Error(`Can not get dependant root for block ${fromBlock.blockRoot} slot ${fromBlock.slot}`)
Unresolvable(fromBlock) ==
    [ok |-> FALSE, root |-> NullRoot, error |-> "Unresolvable", epoch |-> 0,
     block |-> fromBlock.blockRoot, slot |-> fromBlock.slot]
\* the while loop never exits: it came back to a block it has already left
Diverges == [ok |-> FALSE, root |-> NullRoot, error |-> "Diverges", epoch |-> 0,
             block |-> NullRoot, slot |-> 0]

\* the statements after the loop without the test on the finalized epoch
DependantRootExhaustedUnresolvable(forkChoice, fromBlock, epoch) ==
    Unresolvable(fromBlock)

\* the statements after the loop
DependantRootExhausted(forkChoice, fromBlock, epoch) ==
    IF epoch < getFinalizedCheckpoint(forkChoice).epoch
    THEN BeforeFinalized(getFinalizedCheckpoint(forkChoice).epoch)
    ELSE Unresolvable(fromBlock)

\* one turn of the loop without the test on the block being its own target
DependantRootStepTargetOnly(forkChoice, block) ==
    getBlockHex(forkChoice, block.targetRoot)

\* one turn of the loop: the block the walk moves to
DependantRootStep(forkChoice, block) ==
    IF block.blockRoot = block.targetRoot
    THEN getBlockHex(forkChoice, block.parentRoot)
    ELSE getBlockHex(forkChoice, block.targetRoot)

RECURSIVE DependantRootWalkAtStart(_, _, _, _, _, _)
\* the while loop answering a block at the epoch's first slot with its own root
DependantRootWalkAtStart(forkChoice, fromBlock, epoch, dependantRootNextSlot, block, hops) ==
    IF block = NoBlock THEN DependantRootExhausted(forkChoice, fromBlock, epoch)
    ELSE IF block.slot <= dependantRootNextSlot THEN RootOk(block.blockRoot)
    ELSE IF hops > Cardinality(forkChoice.blocks) THEN Diverges
    ELSE DependantRootWalkAtStart(forkChoice, fromBlock, epoch, dependantRootNextSlot,
                                  DependantRootStep(forkChoice, block), hops + 1)

RECURSIVE DependantRootWalkFromBlock(_, _, _, _, _, _)
\* the while loop answering with the root of the block it started from
DependantRootWalkFromBlock(forkChoice, fromBlock, epoch, dependantRootNextSlot, block, hops) ==
    IF block = NoBlock THEN DependantRootExhausted(forkChoice, fromBlock, epoch)
    ELSE IF block.slot = dependantRootNextSlot THEN RootOk(block.parentRoot)
    ELSE IF block.slot < dependantRootNextSlot THEN RootOk(fromBlock.blockRoot)
    ELSE IF hops > Cardinality(forkChoice.blocks) THEN Diverges
    ELSE DependantRootWalkFromBlock(forkChoice, fromBlock, epoch, dependantRootNextSlot,
                                    DependantRootStep(forkChoice, block), hops + 1)

RECURSIVE DependantRootWalk(_, _, _, _, _, _)
\* the while loop; hops counts the blocks left behind
DependantRootWalk(forkChoice, fromBlock, epoch, dependantRootNextSlot, block, hops) ==
    IF block = NoBlock THEN DependantRootExhausted(forkChoice, fromBlock, epoch)
    ELSE IF block.slot = dependantRootNextSlot THEN RootOk(block.parentRoot)
    ELSE IF block.slot < dependantRootNextSlot THEN RootOk(block.blockRoot)
    ELSE IF hops > Cardinality(forkChoice.blocks) THEN Diverges
    ELSE DependantRootWalk(forkChoice, fromBlock, epoch, dependantRootNextSlot,
                           DependantRootStep(forkChoice, block), hops + 1)

getDependantRootAtEpoch(forkChoice, fromBlock, epoch) ==
    IF epoch <= 0
    THEN IF getFinalizedCheckpoint(forkChoice).epoch = 0
         THEN RootOk(getFinalizedCheckpoint(forkChoice).rootHex)
         ELSE BeforeFinalized(getFinalizedCheckpoint(forkChoice).epoch)
    ELSE DependantRootWalk(forkChoice, fromBlock, epoch,
                           computeStartSlotAtEpoch(epoch), fromBlock, 0)

Max(a, b) == IF a >= b THEN a ELSE b

\* a call of getDependantRootAtEpoch and what it returned or threw
Resolution(fromBlock, epoch, result) ==
    [fromBlock |-> fromBlock, epoch |-> epoch, result |-> result]
NoResolution == Resolution(NoBlock, 0 - 1, RootOk(NullRoot))

(***************************************************************************)
(* The fork choices the resolver is called on by itself: one chain with    *)
(* blocks at some of ChainSlots, pruned below the finalized block. A       *)
(* block's target root names the first block of its epoch, or the block at *)
(* or before the first slot of its epoch.                                  *)
(***************************************************************************)
SlotRoot == 0 :> "r0" @@ 5 :> "r5" @@ 32 :> "r32" @@ 40 :> "r40" @@ 45 :> "r45"
            @@ 64 :> "r64" @@ 70 :> "r70"
ChainSlots == DOMAIN SlotRoot

\* the highest of a non-empty set of slots
LastSlot(slots) == CHOOSE s \in slots : \A o \in slots : o <= s

ChainParent(slots, slot) ==
    IF {s \in slots : s < slot} = {} THEN "none"
    ELSE SlotRoot[LastSlot({s \in slots : s < slot})]

\* the first block of the epoch of slot
FirstSlotInEpoch(slots, slot) ==
    CHOOSE s \in slots :
        /\ computeEpochAtSlot(s) = computeEpochAtSlot(slot)
        /\ \A o \in slots : computeEpochAtSlot(o) = computeEpochAtSlot(slot) => s <= o

\* the block at or before the first slot of epoch
CheckpointSlot(slots, epoch) ==
    LastSlot({s \in slots : s <= computeStartSlotAtEpoch(epoch)})

ChainBlock(slots, byFirst, slot) ==
    Block(SlotRoot[slot], ChainParent(slots, slot), SlotRoot[slot], slot,
          IF slot \in byFirst THEN SlotRoot[FirstSlotInEpoch(slots, slot)]
          ELSE SlotRoot[CheckpointSlot(slots, computeEpochAtSlot(slot))])

Chain(slots, byFirst, finalizedEpoch) ==
    LET finalizedSlot == CheckpointSlot(slots, finalizedEpoch)
        all == {ChainBlock(slots, byFirst, s) : s \in slots}
    IN [blocks |-> {b \in all : b.slot >= finalizedSlot},
        finalized |-> [epoch |-> finalizedEpoch, rootHex |-> SlotRoot[finalizedSlot]],
        pruned |-> {b \in all : b.slot < finalizedSlot}]

\* the chains, and the fork choice of the facade with its orphan block
ForkChoices ==
    {Chain(c[1], c[2], c[3]) :
        c \in {d \in (SUBSET ChainSlots) \X (SUBSET ChainSlots) \X (0..MaxFinalizedEpoch) :
                  /\ 0 \in d[1]
                  /\ d[2] \subseteq d[1]
                  /\ d[3] <= computeEpochAtSlot(LastSlot(d[1]))}}
    \cup {[blocks |-> ForkChoice.blocks, finalized |-> ForkChoice.finalized,
           pruned |-> {BlockPruned}]}

\* stores of three blocks whose parent and target pointers are any root of
\* the store or a root it does not hold, cycles and pointers to a block of
\* the same or of a higher slot included
PointerRoots == {"x", "y", "z"}
PointerSlots == [x : {5}, y : {40, 70}, z : {70}]
PointerStores ==
    {[blocks |-> {Block(r, parent[r], r, slot[r], target[r]) : r \in PointerRoots},
      finalized |-> [epoch |-> 0, rootHex |-> "x"],
      pruned |-> {}] :
        slot \in PointerSlots,
        parent \in [PointerRoots -> PointerRoots \cup {"none"}],
        target \in [PointerRoots -> PointerRoots \cup {"none"}]}

(***************************************************************************)
(* States the caches, the callers and the regen engine can hold            *)
(***************************************************************************)
StateA == State(5, "sA")
StateB == State(40, "sB")
\* a state at B's slot on another branch: same slot, another root
StateBFork == State(40, "sBx")
\* checkpoint states: a block's state dialed forward to an epoch start
CheckpointA1 == State(32, "cA1")
CheckpointA2 == State(64, "cA2")

CachedStates == {StateA, StateB}
CheckpointEntries == {[rootHex |-> "A", epoch |-> 1, state |-> CheckpointA1],
                      [rootHex |-> "A", epoch |-> 2, state |-> CheckpointA2]}
StateC == State(45, "sC")
StateE == State(70, "sE")
\* a checkpoint state kept for a block that fork choice no longer has
CheckpointU1 == State(32, "cU1")
OrphanEntries == {[rootHex |-> "unknown", epoch |-> 1, state |-> CheckpointU1]}
AllStates == CachedStates \cup {StateBFork} \cup {e.state : e \in CheckpointEntries}

\* larger than every epoch of the model
Infinity == computeEpochAtSlot(BlockD.slot) + SLOTS_PER_EPOCH

\* blocks handed to getPreState (allForks.BeaconBlock: slot and parentRoot)
BeaconBlock(slot, parentRoot) == [slot |-> slot, parentRoot |-> parentRoot]
PreStateBlocks == {BeaconBlock(45, "B"), BeaconBlock(40, "A"), BeaconBlock(41, "unknown")}
StateRoots == {"sA", "sB"}

(***************************************************************************)
(* State of the regenerator and of its collaborators                       *)
(***************************************************************************)
VARIABLES
    head,                   \* this.head: HeadSummary
    headState,              \* this.headState
    stateCache,             \* StateContextCache: the states it holds
    checkpointStateCache,   \* CheckpointStateCache: its entries
    jobs,                   \* jobQueue: the pending jobs, oldest first
    inflight,               \* jobQueue: the jobs handed to jobQueueProcessor
    outcome,                \* per promise returned by jobQueue.push: what settled it
    headStateWaiters,       \* promises whose .then of setHead is attached
    signalAborted,          \* modules.signal.aborted
    lastCall,               \* the last facade call and what it returned
    headJob,                \* the promise of the getState of the latest setHead, 0 if none
    regenFnQueuedTotal,     \* metrics.regenFnQueuedTotal, over its labels
    dependantRootCacheNext, \* this.dependantRootCacheNext
    dependantRootCacheCurr, \* this.dependantRootCacheCurr
    dependantRootCachePrev, \* this.dependantRootCachePrev
    collected,              \* the states the garbage collector has reclaimed
    forkChoice,             \* the fork choice handed to getDependantRootAtEpoch
    resolved                \* the last call of getDependantRootAtEpoch and its result

\* the dependant-root index and what its weak references point to
indexVars == <<dependantRootCacheNext, dependantRootCacheCurr, dependantRootCachePrev,
               collected>>
\* the input and the output of the resolver called on its own
resolverVars == <<forkChoice, resolved>>

\* the regenerator, its caches and its queue
regenVars == <<head, headState, stateCache, checkpointStateCache, jobs, inflight,
               outcome, headStateWaiters, signalAborted, lastCall, headJob,
               regenFnQueuedTotal>>

vars == <<regenVars, indexVars, resolverVars>>

(***************************************************************************)
(* StateContextCache and CheckpointStateCache                              *)
(***************************************************************************)
StateCacheGet(cache, stateRoot) ==
    IF \E s \in cache : s.root = stateRoot
    THEN CHOOSE s \in cache : s.root = stateRoot
    ELSE NoState

CheckpointCacheGet(cache, rootHex, epoch) ==
    IF \E e \in cache : e.rootHex = rootHex /\ e.epoch = epoch
    THEN (CHOOSE e \in cache : e.rootHex = rootHex /\ e.epoch = epoch).state
    ELSE NoState

\* the entry of rootHex with the highest epoch <= maxEpoch
CheckpointCacheGetLatest(cache, rootHex, maxEpoch) ==
    LET known == {e \in cache : e.rootHex = rootHex /\ e.epoch <= maxEpoch}
    IN IF known = {} THEN NoState
       ELSE (CHOOSE e \in known : \A o \in known : o.epoch <= e.epoch).state

(***************************************************************************)
(* Results of calls and of promises                                        *)
(***************************************************************************)
Resolved(state) == [kind |-> "ok", state |-> state]
Rejected(code) == [kind |-> code, state |-> NoState]
\* the Error of getDependantRootAtEpoch, thrown on by its caller
Thrown(error) == [kind |-> "throw", state |-> NoState, error |-> error]
\* new RegenError({code, blockRoot})
RegenError(code, blockRoot) == [kind |-> code, state |-> NoState, blockRoot |-> blockRoot]
\* a promise of the job queue, not settled yet
Queued == [kind |-> "queued", state |-> NoState]

Call(op, root, slot, cand, ret) ==
    [op |-> op, root |-> root, slot |-> slot, cand |-> cand, ret |-> ret]
NoCall == Call("none", NullRoot, 0, NoState, Rejected("none"))

RegenRequest(key, root, slot, caller) ==
    [key |-> key, root |-> root, slot |-> slot, caller |-> caller]

(***************************************************************************)
(* JobItemQueue                                                            *)
(***************************************************************************)
\* the options the constructor gives the queue
QueueOptsOffByOne == [maxLength |-> REGEN_QUEUE_MAX_LEN + 1, signal |-> TRUE]
QueueOptsNoSignal == [maxLength |-> REGEN_QUEUE_MAX_LEN, signal |-> FALSE]
QueueOpts == [maxLength |-> REGEN_QUEUE_MAX_LEN, signal |-> TRUE]

\* jobs pending plus in flight
QueueLength == Len(jobs) + Cardinality(inflight)
QueueAborted == QueueOpts.signal /\ signalAborted

\* what push answers at submission time: "" when it takes the job
PushRefusal ==
    IF QueueAborted THEN "Cancelled"
    ELSE IF QueueLength + 1 > QueueOpts.maxLength THEN "QueueFull"
    ELSE ""

\* jobQueue.push(request): the promise is the next entry of outcome
NextPromise == Len(outcome) + 1
JobQueuePush(request) ==
    IF PushRefusal # ""
    THEN /\ jobs' = jobs
         /\ outcome' = Append(outcome, <<Rejected(PushRefusal)>>)
    ELSE /\ jobs' = Append(jobs, [id |-> NextPromise, request |-> request])
         /\ outcome' = Append(outcome, <<>>)
PushResult == IF PushRefusal # "" THEN Rejected(PushRefusal) ELSE Queued

(***************************************************************************)
(* StateRegenerator behind the queue: the states a request can produce     *)
(***************************************************************************)
RegenStates(request) ==
    LET block == getBlockHex(ForkChoice, request.root)
    IN CASE request.key = "getState" ->
              {s \in AllStates : s.root = request.root}
         [] request.key = "getPreState" ->
              IF block = NoBlock THEN {}
              ELSE IF computeEpochAtSlot(block.slot) < computeEpochAtSlot(request.slot)
              THEN {e.state : e \in {c \in CheckpointEntries :
                        c.rootHex = request.root
                        /\ c.epoch = computeEpochAtSlot(request.slot)}}
              ELSE {s \in AllStates : s.root = block.stateRoot}
         [] request.key = "getCheckpointState" ->
              {e.state : e \in {c \in CheckpointEntries :
                        c.rootHex = request.root /\ c.epoch = request.slot}}
         [] request.key = "getBlockSlotState" ->
              IF block = NoBlock THEN {}
              ELSE IF block.slot = request.slot
              THEN {s \in AllStates : s.root = block.stateRoot}
              ELSE {e.state : e \in {c \in CheckpointEntries :
                        c.rootHex = request.root
                        /\ computeStartSlotAtEpoch(c.epoch) = request.slot}}

\* jobQueueProcessor: the state regen returns, or the error it rethrows
jobQueueProcessor(regenRequest) ==
    {Resolved(s) : s \in RegenStates(regenRequest)} \cup {Rejected("RegenError")}

(***************************************************************************)
(* Init: the regenerator as constructed, on the genesis head               *)
(***************************************************************************)
HeadSummary(block, next, curr, prev) ==
    [blockRoot |-> block.blockRoot, stateRoot |-> block.stateRoot,
     slot |-> block.slot, epoch |-> computeEpochAtSlot(block.slot),
     targetRoot |-> block.targetRoot, dependantRootNext |-> next,
     dependantRootCurr |-> curr, dependantRootPrev |-> prev]

\* the fields of the regenerator and its collaborators
InitRegenerator ==
    /\ head = HeadSummary(BlockG, "G", "G", "G")
    /\ headState = NoState
    /\ stateCache = {}
    /\ checkpointStateCache = {}
    /\ jobs = <<>>
    /\ inflight = {}
    /\ outcome = <<>>
    /\ headStateWaiters = {}
    /\ signalAborted = FALSE
    /\ lastCall = NoCall
    /\ headJob = 0
    /\ regenFnQueuedTotal = 0
    /\ dependantRootCacheNext = Undefined
    /\ dependantRootCacheCurr = Undefined
    /\ dependantRootCachePrev = Undefined
    /\ collected = {}

Init ==
    /\ InitRegenerator
    /\ forkChoice = ForkChoice
    /\ resolved = NoResolution

(***************************************************************************)
(* The facade                                                              *)
(***************************************************************************)
getHeadState ==
    IF headState # NoState THEN headState
    ELSE IF head.stateRoot # "" THEN StateCacheGet(stateCache, head.stateRoot)
    ELSE NoState

\* getState up to its return: the state of the cache, or the queue's promise
getStateResult(stateRoot) ==
    IF StateCacheGet(stateCache, stateRoot) # NoState
    THEN Resolved(StateCacheGet(stateCache, stateRoot))
    ELSE PushResult
getState(stateRoot, rCaller) ==
    IF StateCacheGet(stateCache, stateRoot) # NoState
    THEN UNCHANGED <<jobs, outcome, regenFnQueuedTotal>>
    ELSE /\ regenFnQueuedTotal' = regenFnQueuedTotal + 1
         /\ JobQueuePush(RegenRequest("getState", stateRoot, 0, rCaller))

\* getState without its probe of the state cache
GetStateAlwaysQueued(stateRoot) ==
    /\ regenFnQueuedTotal' = regenFnQueuedTotal + 1
    /\ JobQueuePush(RegenRequest("getState", stateRoot, 0, "api"))
    /\ lastCall' = Call("getState", stateRoot, 0, NoState, PushResult)
    /\ UNCHANGED <<head, headState, stateCache, checkpointStateCache, inflight,
                   headStateWaiters, signalAborted, headJob>>
    /\ UNCHANGED <<indexVars, resolverVars>>

GetState(stateRoot) ==
    /\ getState(stateRoot, "api")
    /\ lastCall' = Call("getState", stateRoot, 0, NoState, getStateResult(stateRoot))
    /\ UNCHANGED <<head, headState, stateCache, checkpointStateCache, inflight,
                   headStateWaiters, signalAborted, headJob>>
    /\ UNCHANGED <<indexVars, resolverVars>>

\* getPreState that probes the checkpoint cache alone
getPreStateResultNoStateCache(block) ==
    LET parentBlock == getBlockHex(ForkChoice, block.parentRoot)
        parentEpoch == computeEpochAtSlot(parentBlock.slot)
        blockEpoch == computeEpochAtSlot(block.slot)
        checkpointState == CheckpointCacheGetLatest(checkpointStateCache,
                                                    block.parentRoot, blockEpoch)
    IN IF parentBlock = NoBlock
       THEN RegenError("BLOCK_NOT_IN_FORKCHOICE", block.parentRoot)
       ELSE IF parentEpoch < blockEpoch /\ checkpointState # NoState
       THEN Resolved(checkpointState)
       ELSE Queued

\* getPreState that asks the checkpoint cache for the latest state of any epoch
getPreStateResultAnyEpoch(block) ==
    LET parentBlock == getBlockHex(ForkChoice, block.parentRoot)
        parentEpoch == computeEpochAtSlot(parentBlock.slot)
        blockEpoch == computeEpochAtSlot(block.slot)
        checkpointState == CheckpointCacheGetLatest(checkpointStateCache,
                                                    block.parentRoot, Infinity)
        state == StateCacheGet(stateCache, parentBlock.stateRoot)
    IN IF parentBlock = NoBlock
       THEN RegenError("BLOCK_NOT_IN_FORKCHOICE", block.parentRoot)
       ELSE IF parentEpoch < blockEpoch /\ checkpointState # NoState
       THEN Resolved(checkpointState)
       ELSE IF parentEpoch = blockEpoch /\ state # NoState
       THEN Resolved(state)
       ELSE Queued

\* getPreState that probes the state cache whatever the two epochs
getPreStateResultStateCacheAnyEpoch(block) ==
    LET parentBlock == getBlockHex(ForkChoice, block.parentRoot)
        parentEpoch == computeEpochAtSlot(parentBlock.slot)
        blockEpoch == computeEpochAtSlot(block.slot)
        checkpointState == CheckpointCacheGetLatest(checkpointStateCache,
                                                    block.parentRoot, blockEpoch)
        state == StateCacheGet(stateCache, parentBlock.stateRoot)
    IN IF parentBlock = NoBlock
       THEN RegenError("BLOCK_NOT_IN_FORKCHOICE", block.parentRoot)
       ELSE IF parentEpoch < blockEpoch /\ checkpointState # NoState
       THEN Resolved(checkpointState)
       ELSE IF state # NoState
       THEN Resolved(state)
       ELSE Queued

\* getPreState that looks at the parent block after it has probed the caches
getPreStateResultProbeFirst(block) ==
    LET parentBlock == getBlockHex(ForkChoice, block.parentRoot)
        parentEpoch == computeEpochAtSlot(parentBlock.slot)
        blockEpoch == computeEpochAtSlot(block.slot)
        checkpointState == CheckpointCacheGetLatest(checkpointStateCache,
                                                    block.parentRoot, blockEpoch)
        state == StateCacheGet(stateCache, parentBlock.stateRoot)
    IN IF parentEpoch < blockEpoch /\ checkpointState # NoState
       THEN Resolved(checkpointState)
       ELSE IF parentEpoch = blockEpoch /\ state # NoState
       THEN Resolved(state)
       ELSE IF parentBlock = NoBlock
       THEN RegenError("BLOCK_NOT_IN_FORKCHOICE", block.parentRoot)
       ELSE Queued

\* getPreState up to its return
getPreStateResult(block) ==
    LET parentBlock == getBlockHex(ForkChoice, block.parentRoot)
        parentEpoch == computeEpochAtSlot(parentBlock.slot)
        blockEpoch == computeEpochAtSlot(block.slot)
        checkpointState == CheckpointCacheGetLatest(checkpointStateCache,
                                                    block.parentRoot, blockEpoch)
        state == StateCacheGet(stateCache, parentBlock.stateRoot)
    IN IF parentBlock = NoBlock
       THEN RegenError("BLOCK_NOT_IN_FORKCHOICE", block.parentRoot)
       ELSE IF parentEpoch < blockEpoch /\ checkpointState # NoState
       THEN Resolved(checkpointState)
       ELSE IF parentEpoch = blockEpoch /\ state # NoState
       THEN Resolved(state)
       ELSE Queued

\* getPreState calling this.regen itself on a cache miss instead of the queue
GetPreStateDirect(block) ==
    /\ IF getPreStateResult(block) = Queued
       THEN /\ inflight' = inflight \cup {[id |-> NextPromise, request |->
                    RegenRequest("getPreState", block.parentRoot, block.slot, "api")]}
            /\ outcome' = Append(outcome, <<>>)
            /\ regenFnQueuedTotal' = regenFnQueuedTotal + 1
            /\ lastCall' = Call("getPreState", block.parentRoot, block.slot, NoState, Queued)
       ELSE /\ UNCHANGED <<inflight, outcome, regenFnQueuedTotal>>
            /\ lastCall' = Call("getPreState", block.parentRoot, block.slot, NoState,
                                getPreStateResult(block))
    /\ UNCHANGED <<head, headState, stateCache, checkpointStateCache, jobs,
                   headStateWaiters, signalAborted, headJob>>
    /\ UNCHANGED <<indexVars, resolverVars>>

GetPreState(block) ==
    /\ IF getPreStateResult(block) = Queued
       THEN /\ regenFnQueuedTotal' = regenFnQueuedTotal + 1
            /\ JobQueuePush(RegenRequest("getPreState", block.parentRoot, block.slot, "api"))
            /\ lastCall' = Call("getPreState", block.parentRoot, block.slot, NoState,
                                PushResult)
       ELSE /\ UNCHANGED <<jobs, outcome, regenFnQueuedTotal>>
            /\ lastCall' = Call("getPreState", block.parentRoot, block.slot, NoState,
                                getPreStateResult(block))
    /\ UNCHANGED <<head, headState, stateCache, checkpointStateCache, inflight,
                   headStateWaiters, signalAborted, headJob>>
    /\ UNCHANGED <<indexVars, resolverVars>>

GetCheckpointState(cp) ==
    /\ IF CheckpointCacheGet(checkpointStateCache, cp.rootHex, cp.epoch) # NoState
       THEN /\ UNCHANGED <<jobs, outcome, regenFnQueuedTotal>>
            /\ lastCall' = Call("getCheckpointState", cp.rootHex, cp.epoch, NoState,
                    Resolved(CheckpointCacheGet(checkpointStateCache, cp.rootHex, cp.epoch)))
       ELSE /\ regenFnQueuedTotal' = regenFnQueuedTotal + 1
            /\ JobQueuePush(RegenRequest("getCheckpointState", cp.rootHex, cp.epoch, "api"))
            /\ lastCall' = Call("getCheckpointState", cp.rootHex, cp.epoch, NoState,
                                PushResult)
    /\ UNCHANGED <<head, headState, stateCache, checkpointStateCache, inflight,
                   headStateWaiters, signalAborted, headJob>>
    /\ UNCHANGED <<indexVars, resolverVars>>

\* getBlockSlotState calling this.regen itself instead of the queue
GetBlockSlotStateDirect(blockRoot, slot) ==
    /\ inflight' = inflight \cup {[id |-> NextPromise, request |->
                        RegenRequest("getBlockSlotState", blockRoot, slot, "api")]}
    /\ outcome' = Append(outcome, <<>>)
    /\ lastCall' = Call("getBlockSlotState", blockRoot, slot, NoState, Queued)
    /\ UNCHANGED regenFnQueuedTotal
    /\ UNCHANGED <<head, headState, stateCache, checkpointStateCache, jobs,
                   headStateWaiters, signalAborted, headJob>>
    /\ UNCHANGED <<indexVars, resolverVars>>

GetBlockSlotState(blockRoot, slot) ==
    /\ JobQueuePush(RegenRequest("getBlockSlotState", blockRoot, slot, "api"))
    /\ lastCall' = Call("getBlockSlotState", blockRoot, slot, NoState, PushResult)
    /\ UNCHANGED regenFnQueuedTotal
    /\ UNCHANGED <<head, headState, stateCache, checkpointStateCache, inflight,
                   headStateWaiters, signalAborted, headJob>>
    /\ UNCHANGED <<indexVars, resolverVars>>

(***************************************************************************)
(* Reads of the head state                                                 *)
(***************************************************************************)
\* processSlotsToNearestCheckpoint({}, state, slot): the state it resolves with
processSlotsToNearestCheckpoint(state, slot) ==
    [kind |-> "ok", state |-> state, processedTo |-> slot]

\* getHeadStateAtEpoch that takes the head state as getHeadState does
getHeadStateAtEpochFallback(epoch) ==
    IF getHeadState = NoState THEN Rejected("Head state not available")
    ELSE IF head.epoch <= epoch THEN Resolved(getHeadState)
    ELSE processSlotsToNearestCheckpoint(getHeadState, computeStartSlotAtEpoch(epoch))

getHeadStateAtEpoch(epoch) ==
    IF headState = NoState THEN Rejected("Head state not available")
    ELSE IF head.epoch <= epoch THEN Resolved(headState)
    ELSE processSlotsToNearestCheckpoint(headState, computeStartSlotAtEpoch(epoch))

getHeadStateAtSlot(slot) ==
    IF headState = NoState THEN Rejected("Head state not available")
    ELSE IF head.slot <= slot THEN Resolved(headState)
    ELSE processSlotsToNearestCheckpoint(headState, slot)

GetHeadStateAtEpoch(epoch) ==
    /\ lastCall' = Call("getHeadStateAtEpoch", NullRoot, epoch, NoState,
                        getHeadStateAtEpoch(epoch))
    /\ UNCHANGED <<head, headState, stateCache, checkpointStateCache, jobs, inflight,
                   outcome, headStateWaiters, signalAborted, headJob,
                   regenFnQueuedTotal, indexVars, resolverVars>>

GetHeadStateAtSlot(slot) ==
    /\ lastCall' = Call("getHeadStateAtSlot", NullRoot, slot, NoState,
                        getHeadStateAtSlot(slot))
    /\ UNCHANGED <<head, headState, stateCache, checkpointStateCache, jobs, inflight,
                   outcome, headStateWaiters, signalAborted, headJob,
                   regenFnQueuedTotal, indexVars, resolverVars>>

(***************************************************************************)
(* The head tracker                                                        *)
(***************************************************************************)
\* setHead that prefers what the caches hold to the state handed to it
setHeadStateCacheFirst(headBlock, potentialHeadState) ==
    IF CheckpointCacheGetLatest(checkpointStateCache, headBlock.blockRoot, Infinity) # NoState
    THEN CheckpointCacheGetLatest(checkpointStateCache, headBlock.blockRoot, Infinity)
    ELSE IF StateCacheGet(stateCache, headBlock.stateRoot) # NoState
    THEN StateCacheGet(stateCache, headBlock.stateRoot)
    ELSE IF /\ potentialHeadState # NoState
            /\ headBlock.slot = potentialHeadState.slot
            /\ headBlock.stateRoot = hashTreeRoot(potentialHeadState)
    THEN potentialHeadState
    ELSE NoState

\* the state setHead finds synchronously, or null
setHeadState(headBlock, potentialHeadState) ==
    IF /\ potentialHeadState # NoState
       /\ headBlock.slot = potentialHeadState.slot
       /\ headBlock.stateRoot = hashTreeRoot(potentialHeadState)
    THEN potentialHeadState
    ELSE IF CheckpointCacheGetLatest(checkpointStateCache, headBlock.blockRoot, Infinity) # NoState
    THEN CheckpointCacheGetLatest(checkpointStateCache, headBlock.blockRoot, Infinity)
    ELSE StateCacheGet(stateCache, headBlock.stateRoot)

\* the .then of setHead, run when the promise of getState resolves with state
setHeadThen(state) == headState' = state

\* setHead that fills the fields of this.head one by one
SetHeadFieldwise(headBlock, potentialHeadState) ==
    LET headEpoch == computeEpochAtSlot(headBlock.slot)
        next == getDependantRootAtEpoch(ForkChoice, headBlock, headEpoch)
        curr == getDependantRootAtEpoch(ForkChoice, headBlock, Max(headEpoch - 1, 0))
        prev == getDependantRootAtEpoch(ForkChoice, headBlock, Max(headEpoch - 2, 0))
        found == setHeadState(headBlock, potentialHeadState)
    IN IF ~(next.ok /\ curr.ok /\ prev.ok)
       THEN \* getDependantRootAtEpoch throws after the first fields were written
            /\ lastCall' = Call("setHead", headBlock.blockRoot, headBlock.slot,
                                potentialHeadState,
                                Thrown(IF ~next.ok THEN next
                                       ELSE IF ~curr.ok THEN curr ELSE prev))
            /\ head' = [head EXCEPT !.blockRoot = headBlock.blockRoot,
                                    !.stateRoot = headBlock.stateRoot,
                                    !.slot = headBlock.slot,
                                    !.epoch = headEpoch,
                                    !.targetRoot = headBlock.targetRoot]
            /\ UNCHANGED <<headState, stateCache, checkpointStateCache, jobs,
                           inflight, outcome, headStateWaiters, signalAborted, headJob,
                           regenFnQueuedTotal, indexVars, resolverVars>>
       ELSE /\ head' = HeadSummary(headBlock, next.root, curr.root, prev.root)
            /\ IF found # NoState
               THEN /\ headState' = found
                    /\ headJob' = 0
                    /\ UNCHANGED <<jobs, outcome, headStateWaiters, regenFnQueuedTotal>>
                    /\ lastCall' = Call("setHead", headBlock.blockRoot, headBlock.slot,
                                        potentialHeadState, Resolved(NoState))
               ELSE /\ getState(headBlock.stateRoot, "regenHeadState")
                    /\ headJob' = IF getStateResult(headBlock.stateRoot).kind = "ok"
                                  THEN 0 ELSE NextPromise
                    /\ IF getStateResult(headBlock.stateRoot).kind = "ok"
                       THEN /\ setHeadThen(getStateResult(headBlock.stateRoot).state)
                            /\ UNCHANGED headStateWaiters
                       ELSE /\ headState' = NoState
                            /\ headStateWaiters' =
                                 IF getStateResult(headBlock.stateRoot) = Queued
                                 THEN headStateWaiters \cup {NextPromise}
                                 ELSE headStateWaiters
                    /\ lastCall' = Call("setHead", headBlock.blockRoot, headBlock.slot,
                                        potentialHeadState, Resolved(NoState))
            /\ UNCHANGED <<stateCache, checkpointStateCache, inflight, signalAborted,
                           indexVars, resolverVars>>

SetHead(headBlock, potentialHeadState) ==
    LET headEpoch == computeEpochAtSlot(headBlock.slot)
        next == getDependantRootAtEpoch(ForkChoice, headBlock, headEpoch)
        curr == getDependantRootAtEpoch(ForkChoice, headBlock, Max(headEpoch - 1, 0))
        prev == getDependantRootAtEpoch(ForkChoice, headBlock, Max(headEpoch - 2, 0))
        found == setHeadState(headBlock, potentialHeadState)
    IN IF ~(next.ok /\ curr.ok /\ prev.ok)
       THEN \* getDependantRootAtEpoch throws before this.head is assigned
            /\ lastCall' = Call("setHead", headBlock.blockRoot, headBlock.slot,
                                potentialHeadState,
                                Thrown(IF ~next.ok THEN next
                                       ELSE IF ~curr.ok THEN curr ELSE prev))
            /\ UNCHANGED <<head, headState, stateCache, checkpointStateCache, jobs,
                           inflight, outcome, headStateWaiters, signalAborted, headJob,
                           regenFnQueuedTotal, indexVars, resolverVars>>
       ELSE /\ head' = HeadSummary(headBlock, next.root, curr.root, prev.root)
            /\ IF found # NoState
               THEN /\ headState' = found
                    /\ headJob' = 0
                    /\ UNCHANGED <<jobs, outcome, headStateWaiters, regenFnQueuedTotal>>
                    /\ lastCall' = Call("setHead", headBlock.blockRoot, headBlock.slot,
                                        potentialHeadState, Resolved(NoState))
               ELSE /\ getState(headBlock.stateRoot, "regenHeadState")
                    /\ headJob' = IF getStateResult(headBlock.stateRoot).kind = "ok"
                                  THEN 0 ELSE NextPromise
                    /\ IF getStateResult(headBlock.stateRoot).kind = "ok"
                       THEN /\ setHeadThen(getStateResult(headBlock.stateRoot).state)
                            /\ UNCHANGED headStateWaiters
                       ELSE /\ headState' = NoState
                            /\ headStateWaiters' =
                                 IF getStateResult(headBlock.stateRoot) = Queued
                                 THEN headStateWaiters \cup {NextPromise}
                                 ELSE headStateWaiters
                    /\ lastCall' = Call("setHead", headBlock.blockRoot, headBlock.slot,
                                        potentialHeadState, Resolved(NoState))
            /\ UNCHANGED <<stateCache, checkpointStateCache, inflight, signalAborted,
                           indexVars, resolverVars>>

(***************************************************************************)
(* The queue's worker and the abort signal                                 *)
(***************************************************************************)
\* the worker takes the oldest pending job when no job is in flight
JobQueueNext == Head(jobs)
JobQueueRun ==
    /\ ~QueueAborted
    /\ jobs # <<>>
    /\ inflight = {}
    /\ inflight' = inflight \cup {JobQueueNext}
    /\ jobs' = SelectSeq(jobs, LAMBDA j : j # JobQueueNext)
    /\ lastCall' = NoCall
    /\ UNCHANGED <<head, headState, stateCache, checkpointStateCache, outcome,
                   headStateWaiters, signalAborted, headJob,
                   regenFnQueuedTotal, indexVars, resolverVars>>

\* the state a regen job produced enters the cache that holds its kind
RegenCached(cache, state) ==
    IF state \in CachedStates THEN cache \cup {state} ELSE cache
RegenCheckpointed(cache, state) ==
    cache \cup {e \in CheckpointEntries : e.state = state}

\* jobQueueProcessor settles: the promise of the job settles with its result
JobQueueDone(job, result) ==
    /\ job \in inflight
    /\ result \in jobQueueProcessor(job.request)
    /\ inflight' = inflight \ {job}
    /\ outcome' = [outcome EXCEPT ![job.id] = Append(@, result)]
    /\ IF result.kind = "ok"
       THEN /\ stateCache' = RegenCached(stateCache, result.state)
            /\ checkpointStateCache' = RegenCheckpointed(checkpointStateCache, result.state)
       ELSE UNCHANGED <<stateCache, checkpointStateCache>>
    /\ IF result.kind = "ok" /\ job.id \in headStateWaiters
       THEN setHeadThen(result.state)
       ELSE UNCHANGED headState
    /\ headStateWaiters' = headStateWaiters \ {job.id}
    /\ lastCall' = NoCall
    /\ UNCHANGED <<head, jobs, signalAborted, headJob,
                   regenFnQueuedTotal, indexVars, resolverVars>>

\* the ids of the jobs the queue holds, pending or in flight
QueueIds == {jobs[i].id : i \in 1..Len(jobs)} \cup {j.id : j \in inflight}

\* modules.signal aborts: the queue rejects every job it holds
Abort ==
    /\ ~signalAborted
    /\ signalAborted' = TRUE
    /\ IF QueueOpts.signal
       THEN /\ outcome' = [i \in 1..Len(outcome) |->
                             IF i \in QueueIds THEN Append(outcome[i], Rejected("Cancelled"))
                             ELSE outcome[i]]
            /\ jobs' = <<>>
            /\ inflight' = {}
            /\ headStateWaiters' = headStateWaiters \ QueueIds
       ELSE UNCHANGED <<outcome, jobs, inflight, headStateWaiters>>
    /\ lastCall' = NoCall
    /\ UNCHANGED <<head, headState, stateCache, checkpointStateCache, headJob,
                   regenFnQueuedTotal, indexVars, resolverVars>>

(***************************************************************************)
(* The caches fill under the regenerator as blocks are imported            *)
(***************************************************************************)
StateCacheAdd(state) ==
    /\ state \notin stateCache
    /\ stateCache' = stateCache \cup {state}
    /\ lastCall' = NoCall
    /\ UNCHANGED <<head, headState, checkpointStateCache, jobs, inflight, outcome,
                   headStateWaiters, signalAborted, headJob,
                   regenFnQueuedTotal, indexVars, resolverVars>>

CheckpointCacheAdd(entry) ==
    /\ entry \notin checkpointStateCache
    /\ checkpointStateCache' = checkpointStateCache \cup {entry}
    /\ lastCall' = NoCall
    /\ UNCHANGED <<head, headState, stateCache, jobs, inflight, outcome,
                   headStateWaiters, signalAborted, headJob,
                   regenFnQueuedTotal, indexVars, resolverVars>>

(***************************************************************************)
(* The dependant-root index and the persistent reader                      *)
(***************************************************************************)
\* one of the four shufflings a state carries, as a lookup returns it
ShufflingOf(which, state) == [kind |-> "ok", state |-> state, shuffling |-> which]

\* this.store: a member the class neither declares nor assigns
store == Undefined
\* the checkpoint state the persistent reader holds for (epoch, dependantRoot)
PersistedState(epoch, dependantRoot) ==
    State(computeStartSlotAtEpoch(epoch), dependantRoot)
\* (await this.store.readCheckpointState(epoch, dependantRoot)).<which>
readCheckpointState(which, epoch, dependantRoot) ==
    IF ~store.defined THEN Rejected("TypeError")
    ELSE ShufflingOf(which, PersistedState(epoch, dependantRoot))

\* new WeakRef(state) in the set under epoch and dependantRoot; id orders the
\* references of a set as the set iterates them
WeakRef(epoch, dependantRoot, state, id) ==
    [epoch |-> epoch, dependantRoot |-> dependantRoot, state |-> state, id |-> id]
NoRef == WeakRef(0 - 1, NullRoot, NoState, 0)

\* cache.get(epoch)?.get(dependantRoot)
Bucket(cache, epoch, dependantRoot) ==
    {r \in cache.refs : r.epoch = epoch /\ r.dependantRoot = dependantRoot}
\* stateWeakRef.deref()
deref(ref) == IF ref.state \in collected THEN NoState ELSE ref.state

\* the for loop over a bucket: the first reference that is alive
ProbeLive(cache, epoch, dependantRoot) ==
    LET live == {r \in Bucket(cache, epoch, dependantRoot) : deref(r) # NoState}
    IN IF live = {} THEN NoRef ELSE CHOOSE r \in live : \A o \in live : r.id <= o.id
\* the for loop over a bucket: the dead references it deletes on its way
ProbeDeleted(cache, epoch, dependantRoot) ==
    {r \in Bucket(cache, epoch, dependantRoot) :
        /\ deref(r) = NoState
        /\ \/ ProbeLive(cache, epoch, dependantRoot) = NoRef
           \/ r.id < ProbeLive(cache, epoch, dependantRoot).id}
Probed(cache, epoch, dependantRoot) ==
    [cache EXCEPT !.refs = @ \ ProbeDeleted(cache, epoch, dependantRoot)]

\* the identity of the next WeakRef created
NextRefId ==
    LET ids == {r.id : r \in dependantRootCacheNext.refs \cup dependantRootCacheCurr.refs
                              \cup dependantRootCachePrev.refs}
    IN IF ids = {} THEN 1 ELSE 1 + CHOOSE i \in ids : \A o \in ids : o <= i

\* cache.getOrDefault(epoch).getOrDefault(dependantRoot).add(stateWeakRef)
IndexAdd(cache, epoch, dependantRoot, state, id) ==
    [cache EXCEPT !.refs = @ \cup {WeakRef(epoch, dependantRoot, state, id)}]

\* the garbage collector reclaims a state nothing holds strongly
Collect(state) ==
    /\ state \notin collected
    /\ state # headState
    /\ state \notin stateCache
    /\ \A e \in checkpointStateCache : e.state # state
    /\ collected' = collected \cup {state}
    /\ lastCall' = NoCall
    /\ UNCHANGED <<head, headState, stateCache, checkpointStateCache, jobs, inflight,
                   outcome, headStateWaiters, signalAborted, headJob,
                   regenFnQueuedTotal, dependantRootCacheNext, dependantRootCacheCurr,
                   dependantRootCachePrev, resolverVars>>

(***************************************************************************)
(* The shuffling lookups and addPostState                                  *)
(***************************************************************************)
\* the head check of getProposerShuffling
proposerHeadMatches(blockEpoch, dependantRoot) ==
    /\ headState # NoState
    /\ head.epoch = blockEpoch
    /\ head.dependantRootNext = dependantRoot

\* getProposerShuffling up to its return
getProposerShufflingResult(parentBlock, blockSlot) ==
    LET blockEpoch == computeEpochAtSlot(blockSlot)
        dependantRoot == getDependantRootAtEpoch(ForkChoice, parentBlock, blockEpoch)
        hit == ProbeLive(dependantRootCacheNext, blockEpoch, dependantRoot.root)
    IN IF ~dependantRoot.ok THEN Rejected(dependantRoot.error)
       ELSE IF proposerHeadMatches(blockEpoch, dependantRoot.root)
       THEN ShufflingOf("proposers", headState)
       ELSE IF ~dependantRootCacheNext.defined THEN Rejected("TypeError")
       ELSE IF hit # NoRef THEN ShufflingOf("proposers", deref(hit))
       ELSE readCheckpointState("proposers", blockEpoch, dependantRoot.root)

GetProposerShuffling(parentBlock, blockSlot) ==
    LET blockEpoch == computeEpochAtSlot(blockSlot)
        dependantRoot == getDependantRootAtEpoch(ForkChoice, parentBlock, blockEpoch)
    IN /\ lastCall' = Call("getProposerShuffling", parentBlock.blockRoot, blockSlot, NoState,
                           getProposerShufflingResult(parentBlock, blockSlot))
       /\ dependantRootCacheNext' =
            IF /\ dependantRoot.ok
               /\ ~proposerHeadMatches(blockEpoch, dependantRoot.root)
               /\ dependantRootCacheNext.defined
            THEN Probed(dependantRootCacheNext, blockEpoch, dependantRoot.root)
            ELSE dependantRootCacheNext
       /\ UNCHANGED <<head, headState, stateCache, checkpointStateCache, jobs, inflight,
                      outcome, headStateWaiters, signalAborted, headJob,
                      regenFnQueuedTotal, dependantRootCacheCurr, dependantRootCachePrev,
                      collected, resolverVars>>

\* no shuffling found
NoShuffling == Rejected("none")

\* the head check of getAttesterShuffling with the next dependant root of
\* the head in the place of the current one
attesterHeadShufflingNext(epochCurr, epochNext, epochPrev, dependantRoot) ==
    IF headState = NoState THEN NoShuffling
    ELSE IF head.epoch = epochCurr
    THEN IF head.dependantRootNext = dependantRoot
         THEN ShufflingOf("currentShuffling", headState) ELSE NoShuffling
    ELSE IF head.epoch = epochNext
    THEN IF head.dependantRootNext = dependantRoot
         THEN ShufflingOf("nextShuffling", headState) ELSE NoShuffling
    ELSE IF head.epoch = epochPrev
    THEN IF head.dependantRootPrev = dependantRoot
         THEN ShufflingOf("previousShuffling", headState) ELSE NoShuffling
    ELSE NoShuffling

\* the head check of getAttesterShuffling: the shuffling it returns, if any
attesterHeadShuffling(epochCurr, epochNext, epochPrev, dependantRoot) ==
    IF headState = NoState THEN NoShuffling
    ELSE IF head.epoch = epochCurr
    THEN IF head.dependantRootCurr = dependantRoot
         THEN ShufflingOf("currentShuffling", headState) ELSE NoShuffling
    ELSE IF head.epoch = epochNext
    THEN IF head.dependantRootNext = dependantRoot
         THEN ShufflingOf("nextShuffling", headState) ELSE NoShuffling
    ELSE IF head.epoch = epochPrev
    THEN IF head.dependantRootPrev = dependantRoot
         THEN ShufflingOf("previousShuffling", headState) ELSE NoShuffling
    ELSE NoShuffling

\* the three probes of getAttesterShuffling, all of dependantRootCacheNext, and
\* the read of the store: what is returned and what is left of the cache
attesterProbes(cache, epochCurr, epochNext, epochPrev, dependantRoot) ==
    LET afterCurr == Probed(cache, epochCurr, dependantRoot)
        afterNext == Probed(afterCurr, epochNext, dependantRoot)
        afterPrev == Probed(afterNext, epochPrev, dependantRoot)
    IN IF ProbeLive(cache, epochCurr, dependantRoot) # NoRef
       THEN [ret |-> ShufflingOf("currentShuffling",
                                 deref(ProbeLive(cache, epochCurr, dependantRoot))),
             cache |-> afterCurr]
       ELSE IF ProbeLive(afterCurr, epochNext, dependantRoot) # NoRef
       THEN [ret |-> ShufflingOf("nextShuffling",
                                 deref(ProbeLive(afterCurr, epochNext, dependantRoot))),
             cache |-> afterNext]
       ELSE IF ProbeLive(afterNext, epochPrev, dependantRoot) # NoRef
       THEN [ret |-> ShufflingOf("previousShuffling",
                                 deref(ProbeLive(afterNext, epochPrev, dependantRoot))),
             cache |-> afterPrev]
       ELSE [ret |-> readCheckpointState("nextShuffling", epochNext, dependantRoot),
             cache |-> afterPrev]

\* getAttesterShuffling: what it returns and what it leaves of the cache
getAttesterShuffling(targetCheckpoint) ==
    LET targetBlock == getBlockHex(ForkChoice, targetCheckpoint.root)
        epochCurr == targetCheckpoint.epoch
        epochNext == Max(epochCurr - 1, 0)
        epochPrev == epochCurr + 1
        dependantRoot == getDependantRootAtEpoch(ForkChoice, targetBlock, epochNext)
        unchanged(ret) == [ret |-> ret, cache |-> dependantRootCacheNext]
    IN IF targetBlock = NoBlock THEN unchanged(Rejected("Target block not found"))
       ELSE IF ~dependantRoot.ok THEN unchanged(Rejected(dependantRoot.error))
       ELSE IF attesterHeadShuffling(epochCurr, epochNext, epochPrev,
                                     dependantRoot.root) # NoShuffling
       THEN unchanged(attesterHeadShuffling(epochCurr, epochNext, epochPrev,
                                            dependantRoot.root))
       ELSE IF ~dependantRootCacheNext.defined THEN unchanged(Rejected("TypeError"))
       ELSE attesterProbes(dependantRootCacheNext, epochCurr, epochNext, epochPrev,
                           dependantRoot.root)

GetAttesterShuffling(targetCheckpoint) ==
    /\ lastCall' = Call("getAttesterShuffling", targetCheckpoint.root,
                        targetCheckpoint.epoch, NoState,
                        getAttesterShuffling(targetCheckpoint).ret)
    /\ dependantRootCacheNext' = getAttesterShuffling(targetCheckpoint).cache
    /\ UNCHANGED <<head, headState, stateCache, checkpointStateCache, jobs, inflight,
                   outcome, headStateWaiters, signalAborted, headJob,
                   regenFnQueuedTotal, dependantRootCacheCurr, dependantRootCachePrev,
                   collected, resolverVars>>

\* addPostState: the three dependant roots, then the three insertions, each
\* of which needs its cache to be an object
AddPostState(state, block) ==
    LET stateEpoch == computeEpochAtSlot(state.slot)
        stateEpochPlus1 == Max(stateEpoch - 1, 0)
        stateEpochPlus2 == Max(stateEpoch - 2, 0)
        dependantRootEpoch == getDependantRootAtEpoch(ForkChoice, block, stateEpoch)
        dependantRootEpochPlus1 == getDependantRootAtEpoch(ForkChoice, block, stateEpochPlus1)
        dependantRootEpochPlus2 == getDependantRootAtEpoch(ForkChoice, block, stateEpochPlus2)
        resolves == /\ dependantRootEpoch.ok
                    /\ dependantRootEpochPlus1.ok
                    /\ dependantRootEpochPlus2.ok
        intoNext == resolves /\ dependantRootCacheNext.defined
        intoCurr == intoNext /\ dependantRootCacheCurr.defined
        intoPrev == intoCurr /\ dependantRootCachePrev.defined
    IN /\ lastCall' = Call("addPostState", block.blockRoot, state.slot, state,
                IF ~dependantRootEpoch.ok THEN Rejected(dependantRootEpoch.error)
                ELSE IF ~dependantRootEpochPlus1.ok THEN Rejected(dependantRootEpochPlus1.error)
                ELSE IF ~dependantRootEpochPlus2.ok THEN Rejected(dependantRootEpochPlus2.error)
                ELSE IF ~intoPrev THEN Rejected("TypeError")
                ELSE Resolved(NoState))
       /\ dependantRootCacheNext' =
            IF intoNext THEN IndexAdd(dependantRootCacheNext, stateEpoch,
                                      dependantRootEpoch.root, state, NextRefId)
            ELSE dependantRootCacheNext
       /\ dependantRootCacheCurr' =
            IF intoCurr THEN IndexAdd(dependantRootCacheCurr, stateEpochPlus1,
                                      dependantRootEpochPlus1.root, state, NextRefId)
            ELSE dependantRootCacheCurr
       /\ dependantRootCachePrev' =
            IF intoPrev THEN IndexAdd(dependantRootCachePrev, stateEpochPlus2,
                                      dependantRootEpochPlus2.root, state, NextRefId)
            ELSE dependantRootCachePrev
       /\ UNCHANGED <<head, headState, stateCache, checkpointStateCache, jobs, inflight,
                      outcome, headStateWaiters, signalAborted, headJob,
                      regenFnQueuedTotal, collected, resolverVars>>

(***************************************************************************)
(* Specifications                                                          *)
(***************************************************************************)
\* setHead calls: the head block and the candidate state handed along
HeadCalls == {<<BlockA, NoState>>, <<BlockB, NoState>>, <<BlockB, StateB>>,
              <<BlockB, StateBFork>>, <<BlockA, StateA>>, <<BlockD, NoState>>}
Checkpoints == {[rootHex |-> "A", epoch |-> 1]}

\* the head tracker and the cache fast paths, while the caches fill
Next ==
    \/ \E r \in StateRoots : GetState(r) /\ Len(outcome') <= MaxJobs
    \/ \E b \in PreStateBlocks : GetPreState(b) /\ Len(outcome') <= MaxJobs
    \/ \E c \in HeadCalls : SetHead(c[1], c[2]) /\ Len(outcome') <= MaxJobs
    \/ JobQueueRun
    \/ \E j \in inflight : \E r \in jobQueueProcessor(j.request) : JobQueueDone(j, r)
    \/ \E s \in CachedStates : StateCacheAdd(s)
    \/ \E e \in CheckpointEntries : CheckpointCacheAdd(e)

Spec == Init /\ [][Next]_vars

\* the job queue under every kind of request and the abort signal; the caches
\* fill only with what the regen jobs produce
NextQueue ==
    \/ GetState("sB") /\ Len(outcome') <= MaxQueueJobs
    \/ GetPreState(BeaconBlock(40, "A")) /\ Len(outcome') <= MaxQueueJobs
    \/ \E cp \in Checkpoints : GetCheckpointState(cp) /\ Len(outcome') <= MaxQueueJobs
    \/ GetBlockSlotState("A", 32) /\ Len(outcome') <= MaxQueueJobs
    \/ SetHead(BlockB, NoState) /\ Len(outcome') <= MaxQueueJobs
    \/ JobQueueRun
    \/ \E j \in inflight : \E r \in jobQueueProcessor(j.request) : JobQueueDone(j, r)
    \/ Abort

SpecQueue == Init /\ [][NextQueue]_vars

\* the queue filled to its capacity by one kind of request whose jobs succeed
NextBackpressure ==
    \/ GetBlockSlotState("B", 40) /\ Len(outcome') <= BackpressureJobs
    \/ StateCacheGet(stateCache, "sB") # NoState /\ GetState("sB")
    \/ JobQueueRun
    \/ \E j \in inflight : JobQueueDone(j, Resolved(StateB))

SpecBackpressure == Init /\ [][NextBackpressure]_vars

\* getPreState under every content of the two caches, a checkpoint state of a
\* block unknown to fork choice included
NextPreState ==
    \/ \E b \in PreStateBlocks : GetPreState(b) /\ Len(outcome') <= MaxPreStateJobs
    \/ JobQueueRun
    \/ \E j \in inflight : \E r \in jobQueueProcessor(j.request) : JobQueueDone(j, r)
    \/ \E s \in CachedStates : StateCacheAdd(s)
    \/ \E e \in CheckpointEntries \cup OrphanEntries : CheckpointCacheAdd(e)

SpecPreState == Init /\ [][NextPreState]_vars

\* the calls of SpecShuffling
ShufflingHeadCalls == {<<BlockA, StateA>>, <<BlockB, NoState>>, <<BlockC, StateC>>,
                       <<BlockE, StateE>>}
ProposerCalls == {<<BlockC, 70>>, <<BlockB, 45>>, <<BlockD, 71>>}
AttesterCheckpoints == {[epoch |-> 2, root |-> "E"], [epoch |-> 1, root |-> "B"],
                        [epoch |-> 1, root |-> "unknown"], [epoch |-> 2, root |-> "D"]}
PostStates == {<<StateC, BlockC>>, <<State(70, "sD"), BlockD>>}
HeadReadSlots == {5, 40, 70}

\* the reads of the head state and the shuffling lookups, under a head that
\* moves
NextShuffling ==
    \/ \E c \in ShufflingHeadCalls :
          c[2] \notin collected /\ SetHead(c[1], c[2]) /\ Len(outcome') <= MaxShufflingJobs
    \/ JobQueueRun
    \/ \E j \in inflight : \E r \in jobQueueProcessor(j.request) : JobQueueDone(j, r)
    \/ StateCacheAdd(StateB)
    \/ \E e \in 0..MaxHeadReadEpoch : GetHeadStateAtEpoch(e)
    \/ \E s \in HeadReadSlots : GetHeadStateAtSlot(s)
    \/ \E c \in ProposerCalls : GetProposerShuffling(c[1], c[2])
    \/ \E cp \in AttesterCheckpoints : GetAttesterShuffling(cp)
    \/ \E c \in PostStates : c[1] \notin collected /\ AddPostState(c[1], c[2])
    \/ Collect(StateC)

SpecShuffling == Init /\ [][NextShuffling]_vars

\* setHead on blocks whose dependant roots resolve and on blocks for which the
\* first, the second or the third does not
ResolverHeadCalls == {<<BlockA, NoState>>, <<BlockB, StateB>>, <<BlockD, NoState>>,
                      <<BlockF, NoState>>, <<BlockH, NoState>>}

NextHead ==
    \/ \E c \in ResolverHeadCalls : SetHead(c[1], c[2]) /\ Len(outcome') <= MaxHeadJobs
    \/ JobQueueRun
    \/ \E j \in inflight : \E r \in jobQueueProcessor(j.request) : JobQueueDone(j, r)
    \/ \E s \in CachedStates : StateCacheAdd(s)

SpecHead == Init /\ [][NextHead]_vars

\* getDependantRootAtEpoch called on a fork choice, from one of its blocks
GetDependantRootAtEpoch(fromBlock, epoch) ==
    /\ resolved' = Resolution(fromBlock, epoch,
                              getDependantRootAtEpoch(forkChoice, fromBlock, epoch))
    /\ UNCHANGED <<regenVars, indexVars, forkChoice>>

InitResolver ==
    /\ InitRegenerator
    /\ forkChoice \in ForkChoices
    /\ resolved = NoResolution

NextResolver ==
    \E b \in forkChoice.blocks : \E e \in 0..MaxEpoch : GetDependantRootAtEpoch(b, e)

\* the resolver alone, over every fork choice drawn
SpecResolver == InitResolver /\ [][NextResolver]_vars

InitWalk ==
    /\ InitRegenerator
    /\ forkChoice \in PointerStores
    /\ resolved = NoResolution

\* the resolver alone, over every store of PointerStores
SpecWalk == InitWalk /\ [][NextResolver]_vars

(***************************************************************************)
(* The job queue                                                           *)
(***************************************************************************)
\* C1: the jobs pending plus in flight never exceed REGEN_QUEUE_MAX_LEN, and
\* a call that has to enqueue while the queue holds that many is refused with
\* QueueFull at once and leaves the queue as it was.
C1_QueueBound ==
    [][/\ QueueLength' <= REGEN_QUEUE_MAX_LEN
       /\ (lastCall'.op = "getBlockSlotState" /\ QueueLength = REGEN_QUEUE_MAX_LEN)
            => /\ lastCall'.ret = Rejected("QueueFull")
               /\ outcome' = Append(outcome, <<Rejected("QueueFull")>>)
               /\ UNCHANGED <<jobs, inflight>>]_vars

\* a submission refused at a full queue while a job is in flight
C1_Witness ==
    /\ lastCall.op = "getBlockSlotState"
    /\ lastCall.ret = Rejected("QueueFull")
    /\ Len(jobs) = REGEN_QUEUE_MAX_LEN - 1
    /\ inflight # {}

\* C2: at most one regen job executes at any time, whatever the facade calls
\* and the background getState of setHead submit.
C2_SingleExecution == Cardinality(inflight) <= 1

\* the background getState of setHead executes while other jobs wait
C2_Witness ==
    /\ \E j \in inflight : j.request.caller = "regenHeadState"
    /\ Len(jobs) >= 2

\* C3: jobs are served in the order they were accepted: when a job starts,
\* every promise handed out before its own is settled; a promise settles once,
\* when its job leaves the queue, with what jobQueueProcessor answered for that
\* job's request (or with the queue's rejection).
C3_Fifo ==
    [][/\ \A j \in inflight' \ inflight :
            \A i \in 1..(j.id - 1) : Len(outcome[i]) = 1
       /\ \A i \in 1..Len(outcome) :
            outcome'[i] # outcome[i] =>
                i \in QueueIds /\ i \notin QueueIds' /\ Len(outcome'[i]) = 1
       /\ \A j \in inflight \ inflight' :
            outcome'[j.id][1] \in jobQueueProcessor(j.request) \cup {Rejected("Cancelled")}
       /\ \A i \in 1..Len(outcome') : (i \in QueueIds') <=> (outcome'[i] = <<>>)]_vars

\* the first job got its state, the second its error, the third runs, the
\* fourth waits
C3_Witness ==
    /\ Len(outcome) = 4
    /\ outcome[1] # <<>> /\ outcome[1][1].kind = "ok"
    /\ outcome[2] # <<>> /\ outcome[2][1].kind = "RegenError"
    /\ \E j \in inflight : j.id = 3
    /\ Len(jobs) = 1 /\ jobs[1].id = 4

\* C4: when the signal aborts, every job pending or in flight is rejected with
\* Cancelled, the queue is empty from then on, and no promise settles or
\* changes afterwards.
C4_Cancellation ==
    [][/\ (signalAborted' /\ ~signalAborted) =>
            \A i \in QueueIds : outcome'[i] = <<Rejected("Cancelled")>>
       /\ signalAborted' =>
            /\ jobs' = <<>> /\ inflight' = {}
            /\ \A i \in 1..Len(outcome') : Len(outcome'[i]) = 1
       /\ signalAborted =>
            \A i \in 1..Len(outcome) : outcome'[i] = outcome[i]]_vars

\* the state right after the abort: a job had run to its end, and the abort
\* rejected the job in flight and the ones pending
C4_Witness ==
    /\ signalAborted
    /\ lastCall = NoCall
    /\ \E i \in 1..Len(outcome) : outcome[i] # <<>> /\ outcome[i][1].kind = "ok"
    /\ Cardinality({i \in 1..Len(outcome) : outcome[i] = <<Rejected("Cancelled")>>}) = 3

(***************************************************************************)
(* The cache fast paths                                                    *)
(***************************************************************************)
\* C5: when the state cache holds a state under the root asked for, getState
\* returns that state and enqueues nothing, whatever the queue holds.
C5_GetStateCached ==
    [][(/\ lastCall'.op = "getState"
        /\ StateCacheGet(stateCache, lastCall'.root) # NoState)
         => /\ lastCall'.ret = Resolved(StateCacheGet(stateCache, lastCall'.root))
            /\ UNCHANGED <<jobs, inflight, outcome>>]_vars

\* getState answered from the cache while the queue is full
C5_Witness ==
    /\ lastCall.op = "getState"
    /\ lastCall.ret = Resolved(StateB)
    /\ QueueLength = REGEN_QUEUE_MAX_LEN

\* the parent of the block of the last getPreState call, and the two epochs
LastParent(call) == getBlockHex(ForkChoice, call.root)
LastParentEpoch(call) == computeEpochAtSlot(LastParent(call).slot)
LastBlockEpoch(call) == computeEpochAtSlot(call.slot)

\* C6: for a block whose parent is in fork choice and in the block's epoch,
\* getPreState returns the state the state cache holds under the parent's
\* state root, and enqueues nothing.
C6_PreStateSameEpoch ==
    [][(/\ lastCall'.op = "getPreState"
        /\ LastParent(lastCall') # NoBlock
        /\ LastParentEpoch(lastCall') = LastBlockEpoch(lastCall')
        /\ StateCacheGet(stateCache, LastParent(lastCall').stateRoot) # NoState)
         => /\ lastCall'.ret =
                 Resolved(StateCacheGet(stateCache, LastParent(lastCall').stateRoot))
            /\ UNCHANGED <<jobs, inflight, outcome>>]_vars

\* the pre-state of a block at slot 45 on parent B (slot 40) is B's cached state
C6_Witness ==
    /\ lastCall.op = "getPreState"
    /\ lastCall.root = "B" /\ lastCall.slot = 45
    /\ lastCall.ret = Resolved(StateB)
    /\ QueueLength > 0

\* C7: for a block whose parent is in fork choice and in an earlier epoch,
\* getPreState returns the state the checkpoint cache gives as the latest of
\* the parent root up to the block's epoch, and enqueues nothing.
C7_PreStateCrossEpoch ==
    [][(/\ lastCall'.op = "getPreState"
        /\ LastParent(lastCall') # NoBlock
        /\ LastParentEpoch(lastCall') < LastBlockEpoch(lastCall')
        /\ CheckpointCacheGetLatest(checkpointStateCache, lastCall'.root,
                                    LastBlockEpoch(lastCall')) # NoState)
         => /\ lastCall'.ret =
                 Resolved(CheckpointCacheGetLatest(checkpointStateCache, lastCall'.root,
                                                   LastBlockEpoch(lastCall')))
            /\ UNCHANGED <<jobs, inflight, outcome>>]_vars

\* the pre-state of a block at slot 40 on parent A (slot 5) is the checkpoint
\* state (A, 1), also when the cache holds (A, 2)
C7_Witness ==
    /\ lastCall.op = "getPreState"
    /\ lastCall.root = "A" /\ lastCall.slot = 40
    /\ lastCall.ret = Resolved(CheckpointA1)
    /\ \E e \in checkpointStateCache : e.rootHex = "A" /\ e.epoch = 2

(***************************************************************************)
(* The head tracker                                                        *)
(***************************************************************************)
\* C8: right after setHead(b, s) has returned, with s at b's slot and with
\* b's state root, getHeadState() is s, whatever the caches hold and whatever
\* job of an earlier setHead is still queued.
C8_HeadConsistency ==
    (/\ lastCall.op = "setHead"
     /\ lastCall.ret.kind = "ok"
     /\ lastCall.cand # NoState
     /\ lastCall.cand.slot = lastCall.slot
     /\ hashTreeRoot(lastCall.cand) = getBlockHex(ForkChoice, lastCall.root).stateRoot)
      => getHeadState = lastCall.cand

\* setHead(A, state of A) while the checkpoint cache holds states of A and
\* the getState of an earlier setHead is still queued
C8_Witness ==
    /\ lastCall.op = "setHead"
    /\ lastCall.ret.kind = "ok"
    /\ lastCall.root = "A" /\ lastCall.cand = StateA
    /\ getHeadState = StateA
    /\ \E e \in checkpointStateCache : e.rootHex = "A"
    /\ headStateWaiters # {}

\* C9: headState, when not null, is at the head's slot and has the head's
\* state root.
C9_HeadStateOfHead ==
    headState # NoState =>
        /\ headState.slot = head.slot
        /\ hashTreeRoot(headState) = head.stateRoot

\* C10: when the getState started by setHead completes, it installs headState
\* only if the head's state root is still the root that was requested.
C10_NoStaleInstall ==
    [][\A j \in inflight \ inflight' :
            headState' # headState => head.stateRoot = j.request.root]_vars

\* C11: right after setHead(b, none) that finds b's state in neither cache,
\* getHeadState() is null; when the getState job of the latest setHead
\* succeeds, getHeadState() is the regenerated state; when it fails or is
\* cancelled, headState is null (at most the head's own state, when an earlier
\* request for the same root has resolved) and nothing is enqueued in its place.
C11_HeadRecovery ==
    [][/\ (/\ lastCall'.op = "setHead"
           /\ lastCall'.ret.kind = "ok"
           /\ lastCall'.cand = NoState
           /\ CheckpointCacheGetLatest(checkpointStateCache, lastCall'.root, Infinity) = NoState
           /\ StateCacheGet(stateCache, head'.stateRoot) = NoState)
            => getHeadState' = NoState
       /\ \A i \in QueueIds \ QueueIds' :
            (i = headJob /\ headJob' = headJob) =>
                IF outcome'[i][1].kind = "ok"
                THEN getHeadState' = outcome'[i][1].state
                ELSE /\ \/ headState' = NoState
                        \/ hashTreeRoot(headState') = head'.stateRoot
                     /\ Len(outcome') = Len(outcome)
                     /\ QueueIds' \subseteq QueueIds]_vars

(***************************************************************************)
(* The dependant-root resolver                                             *)
(***************************************************************************)
RECURSIVE AncestorChain(_, _)
\* block and its ancestors among blocks, along the parent roots
AncestorChain(blocks, block) ==
    IF \E p \in blocks : p.blockRoot = block.parentRoot
    THEN {block} \cup AncestorChain(blocks, CHOOSE p \in blocks : p.blockRoot = block.parentRoot)
    ELSE {block}

\* the ancestors of the block asked about, pruned ones included, that lie
\* before the first slot of the epoch asked about
ResolvedBefore ==
    {b \in AncestorChain(forkChoice.blocks \cup forkChoice.pruned, resolved.fromBlock) :
        b.slot < computeStartSlotAtEpoch(resolved.epoch)}

\* C12: for an epoch E >= 1, a root the resolver returns is the root of the
\* last block, among the block asked about and its ancestors, whose slot is
\* before the first slot of E.
C12_DependantRootSemantics ==
    (resolved.epoch >= 1 /\ resolved.result.ok) =>
        /\ ResolvedBefore # {}
        /\ resolved.result.root =
             (CHOOSE b \in ResolvedBefore : \A o \in ResolvedBefore : o.slot <= b.slot).blockRoot

\* from the block at slot 70 for epoch 1 the walk passes the blocks at 64, 45
\* and 40 and answers the block at 5
C12_Witness ==
    /\ resolved.fromBlock.slot = 70 /\ resolved.epoch = 1
    /\ {40, 45, 64} \subseteq {b.slot : b \in forkChoice.blocks}
    /\ resolved.result = RootOk("r5")

\* C13: from a block and from any of its ancestors whose epoch is at least E,
\* the resolver gives the same answer for E: the same root, or a failure both
\* times.
C13_DependantRootMonotonic ==
    resolved # NoResolution =>
        \A a \in AncestorChain(forkChoice.blocks, resolved.fromBlock) :
            computeEpochAtSlot(a.slot) >= resolved.epoch =>
                /\ getDependantRootAtEpoch(forkChoice, a, resolved.epoch).ok
                        = resolved.result.ok
                /\ getDependantRootAtEpoch(forkChoice, a, resolved.epoch).root
                        = resolved.result.root

\* the block at 70 agrees for epoch 1 with its ancestors at 64, 45 and 32
C13_Witness ==
    /\ resolved.fromBlock.slot = 70 /\ resolved.epoch = 1
    /\ {32, 45, 64} \subseteq {b.slot : b \in forkChoice.blocks}
    /\ resolved.result = RootOk("r5")
    /\ forkChoice.pruned = {}

\* C18: for epoch 0 the resolver answers the finalized root when the finalized
\* epoch is 0 and fails BeforeFinalized otherwise, whatever the block; for an
\* epoch E >= 1, when no block kept on the ancestor chain is at or before the
\* first slot of E, it fails BeforeFinalized if E is before the finalized
\* epoch and Unresolvable, naming the block asked about, otherwise.
C18_ResolverFailures ==
    resolved # NoResolution =>
        /\ resolved.epoch = 0 =>
             resolved.result =
                IF getFinalizedCheckpoint(forkChoice).epoch = 0
                THEN RootOk(getFinalizedCheckpoint(forkChoice).rootHex)
                ELSE BeforeFinalized(getFinalizedCheckpoint(forkChoice).epoch)
        /\ (/\ resolved.epoch >= 1
            /\ \A b \in AncestorChain(forkChoice.blocks, resolved.fromBlock) :
                    b.slot > computeStartSlotAtEpoch(resolved.epoch))
             => resolved.result =
                    IF resolved.epoch < getFinalizedCheckpoint(forkChoice).epoch
                    THEN BeforeFinalized(getFinalizedCheckpoint(forkChoice).epoch)
                    ELSE Unresolvable(resolved.fromBlock)

\* the walk from the block at 70 for epoch 1 leaves a fork choice finalized at
\* epoch 2 and pruned below the block at 64
C18_Witness ==
    /\ resolved.fromBlock.slot = 70 /\ resolved.epoch = 1
    /\ getFinalizedCheckpoint(forkChoice) = [epoch |-> 2, rootHex |-> "r64"]
    /\ resolved.result = BeforeFinalized(2)

(***************************************************************************)
(* getPreState off its fast paths                                          *)
(***************************************************************************)
\* C16: for a block whose parent is in an earlier epoch, when the checkpoint
\* cache has no state of the parent root up to the block's epoch, getPreState
\* goes to the queue, also when the state cache holds the parent's state; the
\* state of the state cache is returned only when the two epochs are equal.
C16_CrossEpochEnqueues ==
    [][(lastCall'.op = "getPreState" /\ LastParent(lastCall') # NoBlock) =>
        /\ (/\ LastParentEpoch(lastCall') < LastBlockEpoch(lastCall')
            /\ CheckpointCacheGetLatest(checkpointStateCache, lastCall'.root,
                                        LastBlockEpoch(lastCall')) = NoState)
             => /\ lastCall'.ret = PushResult
                /\ regenFnQueuedTotal' = regenFnQueuedTotal + 1
                /\ jobs' = Append(jobs, [id |-> NextPromise, request |->
                        RegenRequest("getPreState", lastCall'.root, lastCall'.slot, "api")])
        /\ (/\ StateCacheGet(stateCache, LastParent(lastCall').stateRoot) # NoState
            /\ lastCall'.ret =
                   Resolved(StateCacheGet(stateCache, LastParent(lastCall').stateRoot)))
             => LastParentEpoch(lastCall') = LastBlockEpoch(lastCall')]_vars

\* the pre-state of a block at slot 40 on parent A (slot 5) is queued while
\* the state cache holds the state of A
C16_Witness ==
    /\ lastCall.op = "getPreState"
    /\ lastCall.root = "A" /\ lastCall.slot = 40
    /\ lastCall.ret = Queued
    /\ StateA \in stateCache
    /\ \E i \in 1..Len(jobs) : jobs[i].request.key = "getPreState" /\ jobs[i].request.root = "A"

\* C17: for a block whose parent root is not in fork choice, getPreState
\* fails with BLOCK_NOT_IN_FORKCHOICE carrying that root, whatever the caches
\* hold, and leaves the queue, the queued counter and the caches as they were.
C17_ParentNotInForkChoice ==
    [][(lastCall'.op = "getPreState" /\ LastParent(lastCall') = NoBlock) =>
        /\ lastCall'.ret = RegenError("BLOCK_NOT_IN_FORKCHOICE", lastCall'.root)
        /\ UNCHANGED <<jobs, inflight, outcome, regenFnQueuedTotal, stateCache,
                       checkpointStateCache>>]_vars

\* the refusal while the checkpoint cache holds a state under the unknown
\* root and the queue holds a job
C17_Witness ==
    /\ lastCall.op = "getPreState"
    /\ lastCall.ret = RegenError("BLOCK_NOT_IN_FORKCHOICE", "unknown")
    /\ \E e \in checkpointStateCache : e.rootHex = "unknown"
    /\ QueueLength > 0

(***************************************************************************)
(* The shuffling lookups and the reads of the head state                   *)
(***************************************************************************)
\* the dependant root a shuffling call computes first
ProposerRoot(call) ==
    getDependantRootAtEpoch(ForkChoice, getBlockHex(ForkChoice, call.root),
                            computeEpochAtSlot(call.slot))
AttesterRoot(call) ==
    getDependantRootAtEpoch(ForkChoice, getBlockHex(ForkChoice, call.root),
                            Max(call.slot - 1, 0))

\* the call goes past its head check, to the index
ReachesIndex(call) ==
    \/ /\ call.op = "getProposerShuffling"
       /\ ProposerRoot(call).ok
       /\ ~(/\ headState # NoState
            /\ head.epoch = computeEpochAtSlot(call.slot)
            /\ head.dependantRootNext = ProposerRoot(call).root)
    \/ /\ call.op = "getAttesterShuffling"
       /\ getBlockHex(ForkChoice, call.root) # NoBlock
       /\ AttesterRoot(call).ok
       /\ attesterHeadShuffling(call.slot, Max(call.slot - 1, 0), call.slot + 1,
                                AttesterRoot(call).root) = NoShuffling

\* what a lookup may return from the persistent reader: a shuffling of the
\* state read for (epoch, dependantRoot), or the reader's NotFound
PersistentReads(epoch, dependantRoot) ==
    {ShufflingOf(w, PersistedState(epoch, dependantRoot)) :
        w \in {"proposers", "nextShuffling"}} \cup {Rejected("NotFound")}

\* C14: no shuffling lookup returns data of a collected state; a lookup that
\* goes to the index returns the shuffling of a live state the index refers
\* to, or what the persistent reader gives; a reference leaves a bucket only
\* when it is dead, and enters one only through addPostState.
C14_WeakRefSafety ==
    [][/\ (/\ lastCall'.op \in {"getProposerShuffling", "getAttesterShuffling"}
           /\ lastCall'.ret.kind = "ok")
            => lastCall'.ret.state \notin collected
       /\ ReachesIndex(lastCall') =>
            \/ /\ lastCall'.ret.kind = "ok"
               /\ \E r \in dependantRootCacheNext.refs : deref(r) = lastCall'.ret.state
            \/ /\ lastCall'.op = "getProposerShuffling"
               /\ lastCall'.ret \in PersistentReads(computeEpochAtSlot(lastCall'.slot),
                                                    ProposerRoot(lastCall').root)
            \/ /\ lastCall'.op = "getAttesterShuffling"
               /\ lastCall'.ret \in PersistentReads(Max(lastCall'.slot - 1, 0),
                                                    AttesterRoot(lastCall').root)
       /\ \A r \in dependantRootCacheNext.refs \ dependantRootCacheNext'.refs :
            deref(r) = NoState
       /\ (dependantRootCacheNext'.refs \ dependantRootCacheNext.refs # {})
            => lastCall'.op = "addPostState"]_vars

\* C15: when the head state is not null, the head is in the epoch of the
\* target checkpoint and its current dependant root is the dependant root of
\* the target block at max(E - 1, 0), getAttesterShuffling returns the
\* current shuffling of the head state and leaves the index as it was.
C15_AttesterFromHead ==
    [][(/\ lastCall'.op = "getAttesterShuffling"
        /\ headState # NoState
        /\ getBlockHex(ForkChoice, lastCall'.root) # NoBlock
        /\ head.epoch = lastCall'.slot
        /\ AttesterRoot(lastCall').ok
        /\ head.dependantRootCurr = AttesterRoot(lastCall').root)
         => /\ lastCall'.ret = ShufflingOf("currentShuffling", headState)
            /\ UNCHANGED indexVars]_vars

\* the head is E (epoch 2) with its state; the checkpoint (2, E) has the
\* dependant root A at epoch 1, the current dependant root of the head
C15_Witness ==
    /\ lastCall.op = "getAttesterShuffling"
    /\ lastCall.root = "E" /\ lastCall.slot = 2
    /\ head.blockRoot = "E" /\ head.dependantRootCurr = "A"
    /\ lastCall.ret = ShufflingOf("currentShuffling", StateE)

\* C19: getHeadStateAtEpoch and getHeadStateAtSlot fail exactly when headState
\* is null, whatever the state cache holds; with a head at or before the
\* target they return headState itself, otherwise what
\* processSlotsToNearestCheckpoint makes of headState and the target; head and
\* headState stay as they were.
C19_HeadStateReads ==
    [][/\ lastCall'.op = "getHeadStateAtEpoch" =>
            /\ (lastCall'.ret = Rejected("Head state not available")) <=> headState = NoState
            /\ (headState # NoState /\ head.epoch <= lastCall'.slot)
                 => lastCall'.ret = Resolved(headState)
            /\ (headState # NoState /\ head.epoch > lastCall'.slot)
                 => lastCall'.ret = processSlotsToNearestCheckpoint(headState,
                                        computeStartSlotAtEpoch(lastCall'.slot))
            /\ UNCHANGED <<head, headState>>
       /\ lastCall'.op = "getHeadStateAtSlot" =>
            /\ (lastCall'.ret = Rejected("Head state not available")) <=> headState = NoState
            /\ (headState # NoState /\ head.slot <= lastCall'.slot)
                 => lastCall'.ret = Resolved(headState)
            /\ (headState # NoState /\ head.slot > lastCall'.slot)
                 => lastCall'.ret = processSlotsToNearestCheckpoint(headState, lastCall'.slot)
            /\ UNCHANGED <<head, headState>>]_vars

\* the failure while getHeadState() has the head's state from the state cache
C19_Witness ==
    /\ lastCall.op = "getHeadStateAtEpoch"
    /\ lastCall.ret = Rejected("Head state not available")
    /\ headState = NoState
    /\ getHeadState = StateB

\* C20: with E the epoch of the block slot and D the dependant root of the
\* parent block at E, getProposerShuffling returns the proposers of the head
\* state when the head matches (E, D), else those of a live state of Next[E][D]
\* when there is one, else what the persistent reader gives for (E, D); it
\* leaves the queue and the two caches as they were.
C20_ProposerLookupOrder ==
    [][(lastCall'.op = "getProposerShuffling" /\ ProposerRoot(lastCall').ok) =>
        /\ lastCall'.ret \in
             IF /\ headState # NoState
                /\ head.epoch = computeEpochAtSlot(lastCall'.slot)
                /\ head.dependantRootNext = ProposerRoot(lastCall').root
             THEN {ShufflingOf("proposers", headState)}
             ELSE IF \E r \in Bucket(dependantRootCacheNext,
                                      computeEpochAtSlot(lastCall'.slot),
                                      ProposerRoot(lastCall').root) : deref(r) # NoState
             THEN {ShufflingOf("proposers", deref(r)) :
                     r \in {l \in Bucket(dependantRootCacheNext,
                                         computeEpochAtSlot(lastCall'.slot),
                                         ProposerRoot(lastCall').root) : deref(l) # NoState}}
             ELSE PersistentReads(computeEpochAtSlot(lastCall'.slot),
                                  ProposerRoot(lastCall').root)
        /\ UNCHANGED <<jobs, inflight, outcome, stateCache, checkpointStateCache>>]_vars

(***************************************************************************)
(* addPostState                                                            *)
(***************************************************************************)
\* the references of a tier that point at state under (epoch, dependantRoot)
RefsTo(cache, epoch, dependantRoot, state) ==
    {r \in Bucket(cache, epoch, dependantRoot) : r.state = state}

\* cache gained one reference to state under (epoch, dependantRoot) and kept
\* every reference it had
AddedOne(before, after, epoch, dependantRoot, state) ==
    /\ after.defined
    /\ before.refs \subseteq after.refs
    /\ Cardinality(after.refs \ before.refs) = 1
    /\ after.refs \ before.refs \subseteq RefsTo(after, epoch, dependantRoot, state)

\* C21: addPostState(state, block), with e the epoch of state and the three
\* dependant roots of block resolved, adds one weak reference to state to
\* Next at e, to Curr at max(e - 1, 0) and to Prev at max(e - 2, 0), each
\* under the dependant root of block at that epoch; the caches, the head,
\* headState, the queue and the references the index had stay.
C21_AddPostState ==
    [][lastCall'.op = "addPostState" =>
        LET state == lastCall'.cand
            block == getBlockHex(ForkChoice, lastCall'.root)
            e == computeEpochAtSlot(state.slot)
            rootNext == getDependantRootAtEpoch(ForkChoice, block, e)
            rootCurr == getDependantRootAtEpoch(ForkChoice, block, Max(e - 1, 0))
            rootPrev == getDependantRootAtEpoch(ForkChoice, block, Max(e - 2, 0))
        IN /\ (rootNext.ok /\ rootCurr.ok /\ rootPrev.ok) =>
                /\ AddedOne(dependantRootCacheNext, dependantRootCacheNext',
                            e, rootNext.root, state)
                /\ AddedOne(dependantRootCacheCurr, dependantRootCacheCurr',
                            Max(e - 1, 0), rootCurr.root, state)
                /\ AddedOne(dependantRootCachePrev, dependantRootCachePrev',
                            Max(e - 2, 0), rootPrev.root, state)
           /\ UNCHANGED <<head, headState, stateCache, checkpointStateCache, jobs,
                          inflight, outcome>>]_vars

(***************************************************************************)
(* The walk of the dependant-root resolver                                 *)
(***************************************************************************)
\* every parent pointer, and every target pointer of a block that is not its
\* own target, leads to a block of a lower slot or to no block of the store
WellFounded(fc) ==
    \A b \in fc.blocks :
        /\ \/ getBlockHex(fc, b.parentRoot) = NoBlock
           \/ getBlockHex(fc, b.parentRoot).slot < b.slot
        /\ \/ b.targetRoot = b.blockRoot
           \/ getBlockHex(fc, b.targetRoot) = NoBlock
           \/ getBlockHex(fc, b.targetRoot).slot < b.slot

RECURSIVE WalkPath(_, _, _, _)
\* the values block takes in the while loop, up to the one it ends on
WalkPath(fc, dependantRootNextSlot, block, hops) ==
    IF \/ block = NoBlock
       \/ block.slot <= dependantRootNextSlot
       \/ hops > Cardinality(fc.blocks)
    THEN <<block>>
    ELSE <<block>> \o WalkPath(fc, dependantRootNextSlot,
                               DependantRootStep(fc, block), hops + 1)

ResolvedPath ==
    WalkPath(forkChoice, computeStartSlotAtEpoch(resolved.epoch), resolved.fromBlock, 0)

\* C23: on a store whose parent and target pointers lead to lower slots or to
\* missing blocks, getDependantRootAtEpoch returns a root or throws after at
\* most as many hops as the store has blocks; each hop goes to a block of a
\* strictly lower slot and no block is visited twice.
C23_WalkTerminates ==
    (resolved.epoch >= 1 /\ WellFounded(forkChoice)) =>
        /\ resolved.result.error # "Diverges"
        /\ Len(ResolvedPath) <= Cardinality(forkChoice.blocks) + 1
        /\ \A i \in 1..(Len(ResolvedPath) - 1) :
              \/ ResolvedPath[i + 1] = NoBlock
              \/ ResolvedPath[i + 1].slot < ResolvedPath[i].slot
        /\ \A i, j \in 1..Len(ResolvedPath) :
              i # j => ResolvedPath[i] # ResolvedPath[j]

\* two hops: from z, its own target, to its parent y, on to y's target x
C23_Witness ==
    /\ WellFounded(forkChoice)
    /\ resolved.epoch = 1
    /\ resolved.result = RootOk("x")
    /\ Len(ResolvedPath) = 3
    /\ ResolvedPath[1].blockRoot = "z" /\ ResolvedPath[1].targetRoot = "z"
    /\ ResolvedPath[2].blockRoot = "y" /\ ResolvedPath[2].targetRoot = "x"

(***************************************************************************)
(* setHead when the resolver throws                                        *)
(***************************************************************************)
\* C24: when one of the three dependant roots of the new head (at its epoch,
\* at max(epoch - 1, 0), at max(epoch - 2, 0)) cannot be computed, setHead
\* throws that error, keeps head and headState and enqueues no getState; when
\* all three are computed, the eight fields of head are those of the new
\* block, also when headState becomes null.
C24_SetHeadAllOrNothing ==
    [][lastCall'.op = "setHead" =>
        LET block == getBlockHex(ForkChoice, lastCall'.root)
            epoch == computeEpochAtSlot(block.slot)
            next == getDependantRootAtEpoch(ForkChoice, block, epoch)
            curr == getDependantRootAtEpoch(ForkChoice, block, Max(epoch - 1, 0))
            prev == getDependantRootAtEpoch(ForkChoice, block, Max(epoch - 2, 0))
        IN IF {r \in {next, curr, prev} : ~r.ok} # {}
           THEN /\ lastCall'.ret.kind = "throw"
                /\ lastCall'.ret.error \in {r \in {next, curr, prev} : ~r.ok}
                /\ UNCHANGED <<head, headState, jobs, inflight, outcome,
                               headStateWaiters, regenFnQueuedTotal>>
           ELSE /\ lastCall'.ret.kind = "ok"
                /\ head' = [blockRoot |-> block.blockRoot,
                            stateRoot |-> block.stateRoot,
                            slot |-> block.slot,
                            epoch |-> epoch,
                            targetRoot |-> block.targetRoot,
                            dependantRootNext |-> next.root,
                            dependantRootCurr |-> curr.root,
                            dependantRootPrev |-> prev.root]]_vars

\* setHead(H) throws on the third root, under the head B and its state
C24_Witness ==
    /\ lastCall.op = "setHead"
    /\ lastCall.root = "H"
    /\ lastCall.ret = Thrown(Unresolvable(BlockH))
    /\ getDependantRootAtEpoch(ForkChoice, BlockH, 3).ok
    /\ getDependantRootAtEpoch(ForkChoice, BlockH, 2).ok
    /\ head.blockRoot = "B"
    /\ headState = StateB

====
